---- MODULE Spec2Model ----
(***************************************************************************)
(* A model of the three-stage test-automation pipeline:                    *)
(*   task1_web_scraping/scraper.py            (WebScraper)                 *)
(*   task2_test_generation/test_case_generator.py (TestCaseGenerator)      *)
(*   task3_script_generation/selenium_script_generator.py                  *)
(*                                            (SeleniumScriptGenerator)    *)
(* A method is an operator that returns a result record                    *)
(*   [status, err, events, ...outputs]                                     *)
(* where status is "returned" or "raised" and events is the ordered list   *)
(* of what the call did that can be observed from outside: failures        *)
(* detected, error lines logged, model calls, file writes.                 *)
(***************************************************************************)
EXTENDS Integers, Sequences, FiniteSets, TLC

VARIABLES
    page,          \* the remote page: a sequence of top-level nodes
    credential,    \* config.GOOGLE_API_KEY is set (TRUE) or None (FALSE)
    scraper,       \* the WebScraper object
    ssg,           \* the SeleniumScriptGenerator object
    elementsFile,  \* output/elements.json
    testCasesFile, \* output/test_cases.xlsx
    scriptsFile,   \* output/test_scripts.xlsx
    response,      \* a raw model response handed to _format_response
    formatted,     \* what _format_response made of it
    last           \* what the last operation did

vars == <<page, credential, scraper, ssg, elementsFile, testCasesFile,
          scriptsFile, response, formatted, last>>

----------------------------------------------------------------------------
(* Bounds of the model *)

MaxNodes == 3
MaxExtracts == 2
MaxRespLen == 5
MaxRows == 2
MaxTextLen == 2

----------------------------------------------------------------------------
(* Events and results *)

Ev(kind, op, err, row, text) ==
    [kind |-> kind, op |-> op, err |-> err, row |-> row, text |-> text]

FailEv(op, err) == Ev("fail", op, err, 0, <<>>)
LogEv(op, err) == Ev("log_error", op, err, 0, <<>>)
LlmEv(op, row, err, text) == Ev("llm", op, err, row, text)
WriteEv(op) == Ev("write", op, "none", 0, <<>>)

\* The Python handler clauses of the sources and the errors they match.
\* FileNotFoundError and the write errors are OSError (= IOError);
\* JSONDecodeError and the raised ValueErrors are not.
Catches(handler, err) ==
    \/ handler = "Exception"
    \/ handler = "IOError" /\ err \in {"NotFoundError", "PersistError"}
    \/ handler = "RequestException" /\ err = "FetchError"

\* F applied to the value of v, with v evaluated once.
By(v, F(_)) == CHOOSE y \in {F(x) : x \in {v}} : TRUE

\* try: ... except <handler> as e: self.logger.error(...); raise
Handled(op, handler, result) ==
    By(result, LAMBDA r :
        IF r.status = "raised" /\ Catches(handler, r.err)
        THEN [r EXCEPT !.events = Append(@, LogEv(op, r.err))]
        ELSE r)

NoLast == [op |-> "none", status |-> "none", err |-> "none", events |-> <<>>]

LastOf(op, r) ==
    [op |-> op, status |-> r.status, err |-> r.err, events |-> r.events]

----------------------------------------------------------------------------
(* Files *)

EmptyInventory == [buttons |-> <<>>, links |-> <<>>, inputs |-> <<>>, forms |-> <<>>]

AbsentJson == [state |-> "absent", data |-> EmptyInventory]
PartialJson == [state |-> "partial", data |-> EmptyInventory]
CompleteJson(inv) == [state |-> "complete", data |-> inv]

AbsentXlsx == [state |-> "absent", data |-> <<>>]
PartialXlsx == [state |-> "partial", data |-> <<>>]
CompleteXlsx(rows) == [state |-> "complete", data |-> rows]

IoModes == {"ok", "mkdir_fail", "open_fail", "write_fail"}

----------------------------------------------------------------------------
(* Stage 1: WebScraper *)

Leaf(tag, type) == [tag |-> tag, type |-> type, kids |-> <<>>]

NodeButton == Leaf("button", "")
NodeInputButton == Leaf("input", "button")
NodeInputText == Leaf("input", "text")
NodeLink == Leaf("a", "")
NodeForm == [tag |-> "form", type |-> "", kids |-> <<NodeInputText>>]

Nodes == {NodeButton, NodeInputButton, NodeInputText, NodeLink, NodeForm}

RECURSIVE Flatten(_)
\* The elements of the page in document order: a node, then its descendants.
Flatten(nodes) ==
    IF nodes = <<>> THEN <<>>
    ELSE <<Head(nodes)>> \o Flatten(Head(nodes).kids) \o Flatten(Tail(nodes))

\* The positions of doc, ascending, whose element satisfies P.
Positions(doc, P(_)) ==
    SelectSeq([i \in 1..Len(doc) |-> i], LAMBDA i : P(doc[i]))

\* soup.find_all(tag): every element with that tag, in document order.
find_all(doc, tag) == Positions(doc, LAMBDA e : e.tag = tag)

\* soup.find_all(tag, type=type)
find_all_typed(doc, tag, type) ==
    Positions(doc, LAMBDA e : e.tag = tag /\ e.type = type)

\* An element's own attributes (text, id, class, href, ...) are copied
\* verbatim into its record; pos, the element's document position, stands
\* for them.
ButtonRecord(doc, i) == [pos |-> i, type |-> doc[i].type]
LinkRecord(doc, i) == [pos |-> i]
InputRecord(doc, i) == [pos |-> i, type |-> doc[i].type]
FormRecord(doc, i) ==
    [pos |-> i,
     inputs |-> [k \in 1..Len(doc[i].kids) |-> [type |-> doc[i].kids[k].type]]]

MapSeq(s, F(_)) == [k \in 1..Len(s) |-> F(s[k])]

ButtonsOf(doc) == find_all(doc, "button") \o find_all_typed(doc, "input", "button")

InputsOf(doc) ==
    SelectSeq(find_all(doc, "input"), LAMBDA i : doc[i].type # "button")

\* The four loops of extract_elements: each appends to self.elements.
AppendElements(elements, doc) ==
    [buttons |-> elements.buttons \o MapSeq(ButtonsOf(doc), LAMBDA i : ButtonRecord(doc, i)),
     links   |-> elements.links \o MapSeq(find_all(doc, "a"), LAMBDA i : LinkRecord(doc, i)),
     inputs  |-> elements.inputs \o MapSeq(InputsOf(doc), LAMBDA i : InputRecord(doc, i)),
     forms   |-> elements.forms \o MapSeq(find_all(doc, "form"), LAMBDA i : FormRecord(doc, i))]

\* WebScraper.extract_elements; fetch is the outcome of requests.get +
\* raise_for_status.
extract_elements(elements, pg, fetch) ==
    Handled("extract_elements", "RequestException",
        IF fetch = "ok"
        THEN [status |-> "returned", err |-> "none", events |-> <<>>,
              elements |-> AppendElements(elements, Flatten(pg))]
        ELSE [status |-> "raised", err |-> "FetchError",
              events |-> <<FailEv("extract_elements", "FetchError")>>,
              elements |-> elements])

\* WebScraper.save_to_json; io is the outcome of mkdir / open(path, 'w') /
\* json.dump. open(.., 'w') creates or truncates the file before the first
\* byte is written.
save_to_json(elements, file, io) ==
    Handled("save_to_json", "IOError",
        CASE io = "ok" ->
               [status |-> "returned", err |-> "none",
                events |-> <<WriteEv("save_to_json")>>,
                file |-> CompleteJson(elements)]
          [] io = "write_fail" ->
               [status |-> "raised", err |-> "PersistError",
                events |-> <<WriteEv("save_to_json"), FailEv("save_to_json", "PersistError")>>,
                file |-> PartialJson]
          [] OTHER ->
               [status |-> "raised", err |-> "PersistError",
                events |-> <<FailEv("save_to_json", "PersistError")>>,
                file |-> file])

NoScraper == [alive |-> FALSE, elements |-> EmptyInventory, extracts |-> 0]

\* WebScraper.__init__
WebScraper_init == [alive |-> TRUE, elements |-> EmptyInventory, extracts |-> 0]

NoSsg == [alive |-> FALSE, test_cases |-> <<>>, exported |-> FALSE]

----------------------------------------------------------------------------
(* Text: a string is a sequence of tokens. " " is whitespace, "p" a word   *)
(* of prose, "[" "]" "," the JSON punctuation, and an object token is one  *)
(* whole JSON object literal {...}.                                        *)

Ws == " "

\* The JSON objects a response may hold, by their content.
Objects ==
    [TC1    |-> [Test_Case_ID |-> "TC001", Test_Scenario |-> "login",
                 Steps_to_Execute |-> "steps1", Expected_Result |-> "exp1"],
     TC2x   |-> [Test_Case_ID |-> "TC002", Test_Scenario |-> "cart",
                 Steps_to_Execute |-> "steps2", Expected_Result |-> "exp2",
                 Priority |-> "high"],
     NoER   |-> [Test_Case_ID |-> "TC003", Test_Scenario |-> "signup",
                 Steps_to_Execute |-> "steps3"],
     NoTSER |-> [Test_Case_ID |-> "TC004", Steps_to_Execute |-> "steps4"]]

ObjectTokens == DOMAIN Objects

Tokens == {"[", "]", ",", "p", Ws} \cup ObjectTokens

\* str.lstrip() in the place of str.strip()
RECURSIVE StripLeftOnly(_)
StripLeftOnly(s) == IF s # <<>> /\ Head(s) = " " THEN StripLeftOnly(Tail(s)) ELSE s

\* str.strip(): drop leading and trailing whitespace.
RECURSIVE LStrip(_)
LStrip(s) == IF s # <<>> /\ Head(s) = Ws THEN LStrip(Tail(s)) ELSE s

RECURSIVE RStrip(_)
RStrip(s) ==
    IF s # <<>> /\ s[Len(s)] = Ws THEN RStrip(SubSeq(s, 1, Len(s) - 1)) ELSE s

Strip(s) == RStrip(LStrip(s))

\* str.rfind(t) in the place of str.find(t)
FindLast(s, t) ==
    IF \E i \in 1..Len(s) : s[i] = t
    THEN (CHOOSE i \in 1..Len(s) : s[i] = t /\ \A j \in (i + 1)..Len(s) : s[j] # t) - 1
    ELSE -1

\* str.find(t): the 0-based index of the first t, or -1.
Find(s, t) ==
    IF \E i \in 1..Len(s) : s[i] = t
    THEN (CHOOSE i \in 1..Len(s) : s[i] = t /\ \A j \in 1..(i - 1) : s[j] # t) - 1
    ELSE -1

\* str.rfind(t): the 0-based index of the last t, or -1.
RFind(s, t) ==
    IF \E i \in 1..Len(s) : s[i] = t
    THEN (CHOOSE i \in 1..Len(s) : s[i] = t /\ \A j \in (i + 1)..Len(s) : s[j] # t) - 1
    ELSE -1

\* s[a:b] for 0 <= a and 0 <= b <= len(s)
Slice(s, a, b) == SubSeq(s, a + 1, b)

----------------------------------------------------------------------------
(* json.loads on token sequences *)

JObj(tok) == [kind |-> "obj", tok |-> tok, items |-> <<>>]
JArr(items) == [kind |-> "arr", tok |-> "", items |-> items]
JFail == [ok |-> FALSE, val |-> JArr(<<>>), next |-> 0]
JOk(v, n) == [ok |-> TRUE, val |-> v, next |-> n]

RECURSIVE SkipWs(_, _)
SkipWs(s, i) == IF i <= Len(s) /\ s[i] = Ws THEN SkipWs(s, i + 1) ELSE i

RECURSIVE ParseValue(_, _)
RECURSIVE ParseItems(_, _, _, _)

\* value := object | '[' ws ']' | '[' value (',' value)* ']'
ParseValue(s, i) ==
    By(SkipWs(s, i), LAMBDA j :
        IF j > Len(s) THEN JFail
        ELSE IF s[j] \in ObjectTokens THEN JOk(JObj(s[j]), j + 1)
        ELSE IF s[j] = "[" THEN ParseItems(s, j + 1, <<>>, TRUE)
        ELSE JFail)

\* The rest of an array after '[' (first) or after ',' (not first).
ParseItems(s, i, acc, first) ==
    By(SkipWs(s, i), LAMBDA j :
        IF j > Len(s) THEN JFail
        ELSE IF first /\ s[j] = "]" THEN JOk(JArr(acc), j + 1)
        ELSE By(ParseValue(s, j), LAMBDA v :
                IF ~v.ok THEN JFail
                ELSE By(SkipWs(s, v.next), LAMBDA k :
                    IF k > Len(s) THEN JFail
                    ELSE IF s[k] = "," THEN ParseItems(s, k + 1, Append(acc, v.val), FALSE)
                    ELSE IF s[k] = "]" THEN JOk(JArr(Append(acc, v.val)), k + 1)
                    ELSE JFail)))

\* json.loads: one value, nothing but whitespace after it.
json_loads(str) ==
    By(str, LAMBDA s :
        By(ParseValue(s, 1), LAMBDA v :
            IF v.ok /\ SkipWs(s, v.next) > Len(s) THEN v ELSE JFail))

----------------------------------------------------------------------------
(* Stage 2: TestCaseGenerator *)

required_keys ==
    <<"Test_Case_ID", "Test_Scenario", "Steps_to_Execute", "Expected_Result">>

\* `key in test_case`: a key of a dict; a member of a list (and no list of
\* this model holds a string).
KeyIn(key, v) == v.kind = "obj" /\ key \in DOMAIN Objects[v.tok]

\* missing_keys = [key for key in required_keys if key not in test_case]
missing_keys(v) == SelectSeq(required_keys, LAMBDA key : ~KeyIn(key, v))

\* A validation that looks at the first test case only.
FirstInvalidHeadOnly(items, i) ==
    IF items # <<>> /\ missing_keys(items[1]) # <<>> THEN 1 ELSE 0

RECURSIVE FirstInvalid(_, _)
\* The validation loop: the index of the first test case with missing keys,
\* or 0.
FirstInvalid(items, i) ==
    IF i > Len(items) THEN 0
    ELSE IF missing_keys(items[i]) # <<>> THEN i
    ELSE FirstInvalid(items, i + 1)

FmtNone == [status |-> "none", err |-> "none", events |-> <<>>,
            test_cases |-> <<>>, missing |-> <<>>]

FmtRaise(err, missing) ==
    [status |-> "raised", err |-> err,
     events |-> <<FailEv("_format_response", err)>>,
     test_cases |-> <<>>, missing |-> missing]

\* The validation loop and the return of _format_response.
Validated(test_cases) ==
    By(FirstInvalid(test_cases, 1), LAMBDA bad :
        IF bad # 0 THEN FmtRaise("ValidationError", missing_keys(test_cases[bad]))
        ELSE [status |-> "returned", err |-> "none", events |-> <<>>,
              test_cases |-> test_cases, missing |-> <<>>])

\* TestCaseGenerator._format_response
_format_response(resp) ==
    Handled("_format_response", "Exception",
        By(Strip(resp), LAMBDA response_str :
        By(Find(response_str, "["), LAMBDA start_idx :
        By(RFind(response_str, "]") + 1, LAMBDA end_idx :
            IF start_idx = -1 \/ end_idx = 0 THEN FmtRaise("ExtractionError", <<>>)
            ELSE By(json_loads(Slice(response_str, start_idx, end_idx)), LAMBDA parsed :
                     IF ~parsed.ok THEN FmtRaise("ParseError", <<>>)
                     ELSE Validated(parsed.val.items))))))

\* The outcome of one call of the text-completion capability.
LlmFail == [ok |-> FALSE, text |-> <<>>]
LlmText(t) == [ok |-> TRUE, text |-> t]

\* TestCaseGenerator._load_elements: a partial file is not valid JSON, and
\* json.load's JSONDecodeError is no IOError.
_load_elements(file) ==
    Handled("_load_elements", "IOError",
        CASE file.state = "absent" ->
               [status |-> "raised", err |-> "NotFoundError",
                events |-> <<FailEv("_load_elements", "NotFoundError")>>,
                elements |-> EmptyInventory]
          [] file.state = "partial" ->
               [status |-> "raised", err |-> "ParseError",
                events |-> <<FailEv("_load_elements", "ParseError")>>,
                elements |-> EmptyInventory]
          [] OTHER ->
               [status |-> "returned", err |-> "none", events |-> <<>>,
                elements |-> file.data])

\* TestCaseGenerator.__init__: load, then the credential check.
TestCaseGenerator_init(file, cred) ==
    LET l == _load_elements(file)
    IN  IF l.status = "raised" THEN l
        ELSE IF ~cred
        THEN [l EXCEPT !.status = "raised", !.err = "ConfigurationError",
                       !.events = Append(@, FailEv("TestCaseGenerator.__init__",
                                                   "ConfigurationError"))]
        ELSE l

\* TestCaseGenerator.generate_test_cases
generate_test_cases(llm) ==
    Handled("generate_test_cases", "Exception",
        IF ~llm.ok
        THEN [status |-> "raised", err |-> "ModelError",
              events |-> <<LlmEv("generate_test_cases", 0, "ModelError", <<>>),
                           FailEv("generate_test_cases", "ModelError")>>,
              test_cases |-> <<>>]
        ELSE LET f == _format_response(llm.text)
             IN  [status |-> f.status, err |-> f.err,
                  events |-> <<LlmEv("generate_test_cases", 0, "none", llm.text)>> \o f.events,
                  test_cases |-> f.test_cases])

\* pd.DataFrame(list of dicts): the columns are the union of the keys, a
\* cell without a value is NaN.
DataFrame(dicts) ==
    LET columns == UNION {DOMAIN Objects[dicts[i].tok] : i \in 1..Len(dicts)}
    IN  [i \in 1..Len(dicts) |->
            [c \in columns |->
                IF c \in DOMAIN Objects[dicts[i].tok]
                THEN Objects[dicts[i].tok][c] ELSE "NaN"]]

\* Path(..).parent.mkdir + df.to_excel(path): the writer opens the file for
\* writing, which creates or truncates it, and saves the workbook after.
to_excel(op, rows, file, io) ==
    CASE io = "ok" ->
           [status |-> "returned", err |-> "none", events |-> <<WriteEv(op)>>,
            file |-> CompleteXlsx(rows)]
      [] io = "write_fail" ->
           [status |-> "raised", err |-> "PersistError",
            events |-> <<WriteEv(op), FailEv(op, "PersistError")>>,
            file |-> PartialXlsx]
      [] OTHER ->
           [status |-> "raised", err |-> "PersistError",
            events |-> <<FailEv(op, "PersistError")>>,
            file |-> file]

\* An export that opens its output file before it generates.
tcg_export_opens_first(llm, file, io) ==
    Handled("TestCaseGenerator.export_to_excel", "Exception",
        LET g == generate_test_cases(llm)
            w == to_excel("TestCaseGenerator.export_to_excel",
                          DataFrame(g.test_cases), file, io)
        IN  IF g.status = "raised" \/ g.test_cases = <<>>
            THEN [status |-> "raised",
                  err |-> IF g.status = "raised" THEN g.err ELSE "NoTestCasesError",
                  events |-> g.events, file |-> PartialXlsx]
            ELSE [status |-> w.status, err |-> w.err,
                  events |-> g.events \o w.events, file |-> w.file])

\* TestCaseGenerator.export_to_excel
tcg_export_to_excel(llm, file, io) ==
    Handled("TestCaseGenerator.export_to_excel", "Exception",
        LET g == generate_test_cases(llm)
            w == to_excel("TestCaseGenerator.export_to_excel",
                          DataFrame(g.test_cases), file, io)
        IN  IF g.status = "raised"
            THEN [status |-> g.status, err |-> g.err, events |-> g.events, file |-> file]
            ELSE IF g.test_cases = <<>>
            THEN [status |-> "raised", err |-> "NoTestCasesError",
                  events |-> Append(g.events,
                       FailEv("TestCaseGenerator.export_to_excel", "NoTestCasesError")),
                  file |-> file]
            ELSE [status |-> w.status, err |-> w.err,
                  events |-> g.events \o w.events, file |-> w.file])

\* test_case_generator.py __main__: construct, export; any exception is
\* logged and the process exits 1.
tcg_main(inFile, cred, llm, outFile, io) ==
    Handled("test_case_generator.__main__", "Exception",
        LET c == TestCaseGenerator_init(inFile, cred)
            e == tcg_export_to_excel(llm, outFile, io)
        IN  IF c.status = "raised"
            THEN [status |-> c.status, err |-> c.err, events |-> c.events, file |-> outFile]
            ELSE [e EXCEPT !.events = c.events \o @])

----------------------------------------------------------------------------
(* Stage 3: SeleniumScriptGenerator *)

\* A load that takes a missing file for an empty table.
load_test_cases_lenient(file) ==
    [status |-> "returned", err |-> "none", events |-> <<>>,
     test_cases |-> file.data]

\* SeleniumScriptGenerator._load_test_cases
_load_test_cases(file) ==
    Handled("_load_test_cases", "Exception",
        CASE file.state = "absent" ->
               [status |-> "raised", err |-> "NotFoundError",
                events |-> <<FailEv("_load_test_cases", "NotFoundError")>>,
                test_cases |-> <<>>]
          [] file.state = "partial" ->
               [status |-> "raised", err |-> "ParseError",
                events |-> <<FailEv("_load_test_cases", "ParseError")>>,
                test_cases |-> <<>>]
          [] OTHER ->
               [status |-> "returned", err |-> "none", events |-> <<>>,
                test_cases |-> file.data])

\* SeleniumScriptGenerator.__init__: load, then GoogleGenerativeAI(
\* google_api_key=GOOGLE_API_KEY) with no check of the key. Whether the
\* library's constructor rejects a None key depends on its version
\* (libChecks); the source does not decide it.
SeleniumScriptGenerator_init(file, cred, libChecks) ==
    LET l == _load_test_cases(file)
    IN  IF l.status = "raised" THEN l
        ELSE IF ~cred /\ libChecks
        THEN [l EXCEPT !.status = "raised", !.err = "ConfigurationError",
                       !.events = Append(@, FailEv("SeleniumScriptGenerator.__init__",
                                                   "ConfigurationError"))]
        ELSE l

\* SeleniumScriptGenerator.generate_selenium_script for row i. The four
\* fields are read before the call; without a credential the call fails.
generate_selenium_script(test_case, i, out, cred) ==
    Handled("generate_selenium_script", "Exception",
        IF \E k \in 1..Len(required_keys) : required_keys[k] \notin DOMAIN test_case
        THEN [status |-> "raised", err |-> "KeyError",
              events |-> <<FailEv("generate_selenium_script", "KeyError")>>,
              script |-> <<>>]
        ELSE IF ~out.ok \/ ~cred
        THEN [status |-> "raised", err |-> "ModelError",
              events |-> <<LlmEv("generate_selenium_script", i, "ModelError", <<>>),
                           FailEv("generate_selenium_script", "ModelError")>>,
              script |-> <<>>]
        ELSE [status |-> "returned", err |-> "none",
              events |-> <<LlmEv("generate_selenium_script", i, "none", out.text)>>,
              script |-> Strip(out.text)])

ScriptRecord(test_case, script) ==
    [Test_Case_ID |-> test_case.Test_Case_ID,
     Test_Scenario |-> test_case.Test_Scenario,
     Selenium_Script |-> script]

RECURSIVE ScriptsLoop(_, _, _, _, _, _)
\* for _, test_case in self.test_cases.iterrows(): from row i on, with the
\* records appended and the events seen so far.
ScriptsLoop(rows, outs, cred, i, scripts_data, events) ==
    IF i > Len(rows)
    THEN [status |-> "returned", err |-> "none", events |-> events,
          scripts_data |-> scripts_data]
    ELSE LET g == generate_selenium_script(rows[i], i, outs[i], cred)
         IN  IF g.status = "raised"
             THEN [status |-> "raised", err |-> g.err, events |-> events \o g.events,
                   scripts_data |-> scripts_data]
             ELSE ScriptsLoop(rows, outs, cred, i + 1,
                              Append(scripts_data, ScriptRecord(rows[i], g.script)),
                              events \o g.events)

\* An export that saves the records made so far when a row fails.
ssg_export_partial(rows, outs, cred, file, io) ==
    Handled("SeleniumScriptGenerator.export_to_excel", "Exception",
        LET l == ScriptsLoop(rows, outs, cred, 1, <<>>, <<>>)
            w == to_excel("SeleniumScriptGenerator.export_to_excel",
                          l.scripts_data, file, io)
        IN  [status |-> IF l.status = "raised" THEN "raised" ELSE w.status,
             err |-> IF l.status = "raised" THEN l.err ELSE w.err,
             events |-> l.events \o w.events, file |-> w.file])

\* SeleniumScriptGenerator.export_to_excel
ssg_export_to_excel(rows, outs, cred, file, io) ==
    Handled("SeleniumScriptGenerator.export_to_excel", "Exception",
        LET l == ScriptsLoop(rows, outs, cred, 1, <<>>, <<>>)
            w == to_excel("SeleniumScriptGenerator.export_to_excel",
                          l.scripts_data, file, io)
        IN  IF l.status = "raised"
            THEN [status |-> l.status, err |-> l.err, events |-> l.events, file |-> file]
            ELSE [status |-> w.status, err |-> w.err,
                  events |-> l.events \o w.events, file |-> w.file])

\* selenium_script_generator.py __main__: construct, export; nothing is
\* caught.
ssg_main(inFile, cred, libChecks, outs, outFile, io) ==
    LET c == SeleniumScriptGenerator_init(inFile, cred, libChecks)
        e == ssg_export_to_excel(c.test_cases, outs, cred, outFile, io)
    IN  IF c.status = "raised"
        THEN [status |-> c.status, err |-> c.err, events |-> c.events, file |-> outFile]
        ELSE [e EXCEPT !.events = c.events \o @]

\* scraper.py __main__: construct, extract, save; nothing is caught.
scraper_main(pg, fetch, outFile, io) ==
    LET x == extract_elements(WebScraper_init.elements, pg, fetch)
        w == save_to_json(x.elements, outFile, io)
    IN  IF x.status = "raised"
        THEN [status |-> x.status, err |-> x.err, events |-> x.events, file |-> outFile]
        ELSE [w EXCEPT !.events = x.events \o @]

----------------------------------------------------------------------------
(* The Extractor's methods as actions on one WebScraper object *)

RECURSIVE SeqsUpTo(_, _)
SeqsUpTo(S, n) ==
    IF n = 0 THEN {<<>>}
    ELSE LET shorter == SeqsUpTo(S, n - 1)
         IN  shorter \cup {Append(s, x) : s \in {t \in shorter : Len(t) = n - 1}, x \in S}

Pages == SeqsUpTo(Nodes, MaxNodes)

InitExtractor ==
    /\ page \in Pages
    /\ credential = TRUE
    /\ scraper = NoScraper
    /\ ssg = NoSsg
    /\ elementsFile = AbsentJson
    /\ testCasesFile = AbsentXlsx
    /\ scriptsFile = AbsentXlsx
    /\ response = <<>>
    /\ formatted = FmtNone
    /\ last = NoLast

NewScraper ==
    /\ scraper' = WebScraper_init
    /\ last' = [NoLast EXCEPT !.op = "WebScraper.__init__", !.status = "returned"]
    /\ UNCHANGED <<page, credential, ssg, elementsFile, testCasesFile, scriptsFile, response, formatted>>

ExtractElements ==
    /\ scraper.alive
    /\ scraper.extracts < MaxExtracts
    /\ \E fetch \in {"ok", "http_error"} :
         LET r == extract_elements(scraper.elements, page, fetch)
         IN  /\ scraper' = [scraper EXCEPT !.elements = r.elements,
                                           !.extracts = @ + 1]
             /\ last' = LastOf("extract_elements", r)
    /\ UNCHANGED <<page, credential, ssg, elementsFile, testCasesFile, scriptsFile, response, formatted>>

SaveToJson ==
    /\ scraper.alive
    /\ \E io \in IoModes :
         LET r == save_to_json(scraper.elements, elementsFile, io)
         IN  /\ elementsFile' = r.file
             /\ last' = LastOf("save_to_json", r)
    /\ UNCHANGED <<page, credential, scraper, ssg, testCasesFile, scriptsFile, response, formatted>>

NextExtractor == NewScraper \/ ExtractElements \/ SaveToJson

SpecExtractor == InitExtractor /\ [][NextExtractor]_vars

----------------------------------------------------------------------------
(* _format_response applied to every response of at most MaxRespLen tokens *)

Responses == SeqsUpTo(Tokens, MaxRespLen)

InitFormat ==
    /\ page = <<>>
    /\ credential = TRUE
    /\ scraper = NoScraper
    /\ ssg = NoSsg
    /\ elementsFile = AbsentJson
    /\ testCasesFile = AbsentXlsx
    /\ scriptsFile = AbsentXlsx
    /\ response \in Responses
    /\ formatted = FmtNone
    /\ last = NoLast

FormatResponse ==
    /\ formatted = FmtNone
    /\ formatted' = _format_response(response)
    /\ last' = LastOf("_format_response", formatted')
    /\ UNCHANGED <<page, credential, scraper, ssg, elementsFile, testCasesFile,
                   scriptsFile, response>>

NextFormat == FormatResponse

SpecFormat == InitFormat /\ [][NextFormat]_vars

----------------------------------------------------------------------------
(* The Script Synthesizer's methods as actions on one object, on every     *)
(* table of at most MaxRows rows and every script text of at most          *)
(* MaxTextLen tokens                                                       *)

ValidTokens == {"TC1", "TC2x"}

Tables == {DataFrame(MapSeq(s, JObj)) : s \in SeqsUpTo(ValidTokens, MaxRows)}

Texts == SeqsUpTo({Ws, "x"}, MaxTextLen)

InitScripts ==
    /\ page = <<>>
    /\ credential \in BOOLEAN
    /\ scraper = NoScraper
    /\ ssg = NoSsg
    /\ elementsFile = AbsentJson
    /\ testCasesFile \in {CompleteXlsx(t) : t \in Tables}
    /\ scriptsFile = AbsentXlsx
    /\ response = <<>>
    /\ formatted = FmtNone
    /\ last = NoLast

\* generator = SeleniumScriptGenerator()
NewSsg ==
    /\ ~ssg.alive
    /\ \E libChecks \in BOOLEAN :
         LET c == SeleniumScriptGenerator_init(testCasesFile, credential, libChecks)
         IN  /\ ssg' = IF c.status = "returned"
                       THEN [alive |-> TRUE, test_cases |-> c.test_cases, exported |-> FALSE]
                       ELSE ssg
             /\ last' = LastOf("SeleniumScriptGenerator.__init__", c)
    /\ UNCHANGED <<page, credential, scraper, elementsFile, testCasesFile,
                   scriptsFile, response, formatted>>

\* generator.export_to_excel()
SsgExport ==
    /\ ssg.alive
    /\ ~ssg.exported
    /\ \E outs \in [1..Len(ssg.test_cases) -> {LlmFail} \cup {LlmText(t) : t \in Texts}],
          io \in IoModes :
         LET r == ssg_export_to_excel(ssg.test_cases, outs, credential, scriptsFile, io)
         IN  /\ scriptsFile' = r.file
             /\ last' = LastOf("SeleniumScriptGenerator.export_to_excel", r)
    /\ ssg' = [ssg EXCEPT !.exported = TRUE]
    /\ UNCHANGED <<page, credential, scraper, elementsFile, testCasesFile,
                   response, formatted>>

NextScripts == NewSsg \/ SsgExport

SpecScripts == InitScripts /\ [][NextScripts]_vars

----------------------------------------------------------------------------
(* The pipeline: each stage run as its script's __main__, in any order     *)

\* ",".join(tokens)
Join(toks) ==
    IF toks = <<>> THEN <<>>
    ELSE [i \in 1..(2 * Len(toks) - 1) |->
             IF i % 2 = 1 THEN toks[(i + 1) \div 2] ELSE ","]

\* What the model may answer in stage 2: prose around an array of valid
\* test cases, and answers that fail extraction, parsing or validation.
PipelineResponses ==
    {<<"p", "[">> \o Join(s) \o <<"]", "p">> : s \in {<<>>, <<"TC1">>, <<"TC1", "TC2x">>}}
    \cup {<<"p">>, <<"[", "p", "]">>, <<"[", "NoER", "]">>}

PipelineTexts == {<<Ws, "x", Ws>>}

PipelinePages == {<<>>, <<NodeInputButton, NodeForm, NodeButton>>}

Init ==
    /\ page \in PipelinePages
    /\ credential \in BOOLEAN
    /\ scraper = NoScraper
    /\ ssg = NoSsg
    /\ elementsFile = AbsentJson
    /\ testCasesFile = AbsentXlsx
    /\ scriptsFile = AbsentXlsx
    /\ response = <<>>
    /\ formatted = FmtNone
    /\ last = NoLast

\* utils/config.py runs at the import of every stage: the key is what the
\* environment of that process holds.
LoadConfig == credential' \in BOOLEAN

Stage1Run ==
    /\ LoadConfig
    /\ \E fetch \in {"ok", "http_error"}, io \in IoModes :
         LET r == scraper_main(page, fetch, elementsFile, io)
         IN  /\ elementsFile' = r.file
             /\ last' = LastOf("scraper.__main__", r)
    /\ UNCHANGED <<page, scraper, ssg, testCasesFile, scriptsFile, response, formatted>>

Stage2Run ==
    /\ LoadConfig
    /\ \E llm \in {LlmFail} \cup {LlmText(t) : t \in PipelineResponses}, io \in IoModes :
         LET r == tcg_main(elementsFile, credential', llm, testCasesFile, io)
         IN  /\ testCasesFile' = r.file
             /\ last' = LastOf("test_case_generator.__main__", r)
    /\ UNCHANGED <<page, scraper, ssg, elementsFile, scriptsFile, response, formatted>>

Stage3Run ==
    /\ LoadConfig
    /\ \E libChecks \in BOOLEAN, io \in IoModes,
          outs \in [1..Len(testCasesFile.data) ->
                       {LlmFail} \cup {LlmText(t) : t \in PipelineTexts}] :
         LET r == ssg_main(testCasesFile, credential', libChecks, outs, scriptsFile, io)
         IN  /\ scriptsFile' = r.file
             /\ last' = LastOf("selenium_script_generator.__main__", r)
    /\ UNCHANGED <<page, scraper, ssg, elementsFile, testCasesFile, response, formatted>>

Next == Stage1Run \/ Stage2Run \/ Stage3Run

Spec == Init /\ [][Next]_vars

----------------------------------------------------------------------------
(* Properties *)

S1Main == "scraper.__main__"
S2Main == "test_case_generator.__main__"
S3Main == "selenium_script_generator.__main__"

\* The indices of the events of run l that are of the given kind.
EvIdx(l, kind) == {i \in 1..Len(l.events) : l.events[i].kind = kind}

\* C1: a run of the Script Synthesizer in which the model call of any row
\* fails ends in an error and leaves test_scripts.xlsx as it was; the file
\* is written only after one successful model call for every input row,
\* and no row is called twice.
C1_ScriptsAllOrNothing ==
    [][last'.op = S3Main =>
        LET ev == last'.events
            llm == EvIdx(last', "llm")
            wr == EvIdx(last', "write")
            n == Len(testCasesFile.data)
        IN  /\ (\E i \in llm : ev[i].err # "none") =>
                  /\ last'.status = "raised"
                  /\ wr = {}
                  /\ scriptsFile' = scriptsFile
            /\ \A w \in wr :
                  /\ {ev[i].row : i \in llm} = 1..n
                  /\ \A i \in llm : i < w /\ ev[i].err = "none"
            /\ scriptsFile' # scriptsFile => wr # {}
            /\ \A i, j \in llm : i # j => ev[i].row # ev[j].row
    ]_vars

\* The second row's model call failed after the first succeeded, and the
\* scripts file of an earlier run is still complete.
C1_Witness ==
    /\ last.op = S3Main
    /\ scriptsFile.state = "complete"
    /\ \E i \in EvIdx(last, "llm") :
          last.events[i].row = 2 /\ last.events[i].err # "none"

FailsAtLoad(l, op) ==
    /\ l.status = "raised"
    /\ l.err = "NotFoundError"
    /\ l.events # <<>>
    /\ l.events[1] = FailEv(op, "NotFoundError")
    /\ EvIdx(l, "llm") = {}
    /\ EvIdx(l, "write") = {}

\* C2: a stage whose upstream file is absent fails at load with a
\* not-found error, before any model call and without touching its own
\* output file.
C2_AbsentUpstreamFailsAtLoad ==
    [][/\ (last'.op = S2Main /\ elementsFile.state = "absent") =>
              FailsAtLoad(last', "_load_elements") /\ testCasesFile' = testCasesFile
       /\ (last'.op = S3Main /\ testCasesFile.state = "absent") =>
              FailsAtLoad(last', "_load_test_cases") /\ scriptsFile' = scriptsFile
    ]_vars

\* Stage 1 has written elements.json, stage 2 has not run to completion,
\* and stage 3 was started and failed at load.
C2_Witness ==
    /\ last.op = S3Main
    /\ last.err = "NotFoundError"
    /\ elementsFile.state = "complete"
    /\ testCasesFile.state = "absent"

\* C3: without the API credential, stage 2 and stage 3 fail at
\* construction: the run ends in an error (a configuration error when the
\* upstream file loads), no model call is made and the output file is not
\* written.
C3_CredentialFailFast ==
    [][/\ (last'.op = S2Main /\ ~credential') =>
              /\ last'.status = "raised"
              /\ EvIdx(last', "llm") = {}
              /\ testCasesFile' = testCasesFile
              /\ elementsFile.state = "complete" => last'.err = "ConfigurationError"
       /\ (last'.op = S3Main /\ ~credential') =>
              /\ last'.status = "raised"
              /\ EvIdx(last', "llm") = {}
              /\ scriptsFile' = scriptsFile
              /\ testCasesFile.state = "complete" => last'.err = "ConfigurationError"
    ]_vars

\* C4: every failure detected in a run is logged by the operation that
\* detected it, after the detection, and the run does not return normally.
C4_ErrorsLoggedAndReraised ==
    \A i \in EvIdx(last, "fail") :
        /\ last.status = "raised"
        /\ \E j \in EvIdx(last, "log_error") :
              /\ j > i
              /\ last.events[j].op = last.events[i].op
              /\ last.events[j].err = last.events[i].err

\* C5 as stated: a failed run of a stage leaves the stage's own output
\* file exactly as it was, whatever failed.
C5_FailureLeavesOutputUntouched ==
    [][last'.status = "raised" =>
        /\ last'.op = S1Main => elementsFile' = elementsFile
        /\ last'.op = S2Main => testCasesFile' = testCasesFile
        /\ last'.op = S3Main => scriptsFile' = scriptsFile
    ]_vars

OutputKept(l, before, after) ==
    IF EvIdx(l, "write") = {} THEN after = before ELSE after.state = "partial"

\* C5, amended: a run that fails before its persist step has opened the
\* output file leaves that file exactly as it was; a run that fails while
\* writing leaves it truncated or partial. No other file changes.
C5_FailureBeforeWriteLeavesOutputUntouched ==
    [][last'.status = "raised" =>
        /\ last'.op = S1Main => OutputKept(last', elementsFile, elementsFile')
        /\ last'.op = S2Main => OutputKept(last', testCasesFile, testCasesFile')
        /\ last'.op = S3Main => OutputKept(last', scriptsFile, scriptsFile')
    ]_vars

\* Stage 2 failed at validation and the test cases of an earlier run are
\* still on disk.
C5_Witness ==
    /\ last.op = S2Main
    /\ last.err = "ValidationError"
    /\ testCasesFile.state = "complete"

\* C6: after extract_elements returns, persisting the inventory gives the
\* JSON of one extraction of the page, however many extractions came
\* before.
C6_ExtractIdempotent ==
    (last.op = "extract_elements" /\ last.status = "returned") =>
        save_to_json(scraper.elements, elementsFile, "ok").file
          = save_to_json(AppendElements(EmptyInventory, Flatten(page)),
                         elementsFile, "ok").file

IsButton(e) == e.tag = "button" \/ (e.tag = "input" /\ e.type = "button")

\* C7: after one extraction of a page with N buttons (<button> and
\* <input type="button">), buttons has N records, in document order.
C7_ButtonsInDocumentOrder ==
    (last.op = "extract_elements" /\ last.status = "returned" /\ scraper.extracts = 1) =>
        LET b == scraper.elements.buttons
            doc == Flatten(page)
        IN  /\ Len(b) = Cardinality({i \in 1..Len(doc) : IsButton(doc[i])})
            /\ \A i, j \in 1..Len(b) : i < j => b[i].pos < b[j].pos

\* t is s without its leading and trailing whitespace.
IsTrimOf(t, s) ==
    \E a \in 1..(Len(s) + 1) : \E b \in 0..Len(s) :
        /\ t = SubSeq(s, a, b)
        /\ \A i \in 1..Len(s) : (i < a \/ i > b) => s[i] = Ws
        /\ t # <<>> => (t[1] # Ws /\ t[Len(t)] # Ws)

\* C8: when every model call succeeds, the output table has one record per
\* input row, in the input order, with the row's Test_Case_ID and
\* Test_Scenario and the trimmed text of the call made for that row; there
\* is exactly one call per row, in row order.
C8_ScriptsOutputShape ==
    (last.op = "SeleniumScriptGenerator.export_to_excel" /\ last.status = "returned") =>
        LET rows == ssg.test_cases
            llm == SelectSeq(last.events, LAMBDA e : e.kind = "llm")
            out == scriptsFile.data
        IN  /\ scriptsFile.state = "complete"
            /\ Len(out) = Len(rows)
            /\ Len(llm) = Len(rows)
            /\ \A i \in 1..Len(rows) :
                  /\ llm[i].row = i
                  /\ llm[i].err = "none"
                  /\ DOMAIN out[i] = {"Test_Case_ID", "Test_Scenario", "Selenium_Script"}
                  /\ out[i].Test_Case_ID = rows[i].Test_Case_ID
                  /\ out[i].Test_Scenario = rows[i].Test_Scenario
                  /\ IsTrimOf(out[i].Selenium_Script, llm[i].text)

\* Two different rows were exported, and a text with whitespace around it
\* was returned for one of them.
C8_Witness ==
    /\ last.op = "SeleniumScriptGenerator.export_to_excel"
    /\ last.status = "returned"
    /\ Len(scriptsFile.data) = 2
    /\ scriptsFile.data[1].Test_Case_ID # scriptsFile.data[2].Test_Case_ID
    /\ \E i \in EvIdx(last, "llm") :
          /\ Len(last.events[i].text) = 2
          /\ Ws \in {last.events[i].text[k] : k \in 1..2}
          /\ "x" \in {last.events[i].text[k] : k \in 1..2}

Required == {required_keys[k] : k \in 1..Len(required_keys)}

NoWs(s) == SelectSeq(s, LAMBDA t : t # Ws)

\* s is a JSON array of objects: '[' ']' or '[' object (',' object)* ']',
\* with whitespace anywhere between the tokens.
IsFlatArray(s) ==
    /\ Len(s) >= 2
    /\ s[1] = "["
    /\ s[Len(s)] = "]"
    /\ LET inner == NoWs(SubSeq(s, 2, Len(s) - 1))
       IN  \/ inner = <<>>
           \/ /\ Len(inner) % 2 = 1
              /\ \A i \in 1..Len(inner) :
                    IF i % 2 = 1 THEN inner[i] \in ObjectTokens ELSE inner[i] = ","

\* The objects of such an array, in order.
ArrayItems(s) ==
    LET inner == NoWs(SubSeq(s, 2, Len(s) - 1))
    IN  [i \in 1..((Len(inner) + 1) \div 2) |-> inner[2 * i - 1]]

\* Where resp holds an array of objects: resp = prose, array, prose.
Spans(resp) ==
    {sp \in (1..Len(resp)) \X (1..Len(resp)) :
        sp[1] < sp[2] /\ IsFlatArray(SubSeq(resp, sp[1], sp[2]))}

\* The same with no '[' in the prose before and no ']' in the prose after.
CleanSpans(resp) ==
    {sp \in Spans(resp) :
        /\ \A i \in 1..(sp[1] - 1) : resp[i] # "["
        /\ \A i \in (sp[2] + 1)..Len(resp) : resp[i] # "]"}

ItemsAt(resp, sp) == ArrayItems(SubSeq(resp, sp[1], sp[2]))

IsValidObject(tok) == Required \subseteq DOMAIN Objects[tok]

\* m lists, in the order of required_keys, the required keys tok lacks.
IsMissingList(m, tok) ==
    /\ {m[i] : i \in 1..Len(m)} = Required \ DOMAIN Objects[tok]
    /\ \A i, j \in 1..Len(m) : i < j =>
          \E a, b \in 1..Len(required_keys) :
              a < b /\ required_keys[a] = m[i] /\ required_keys[b] = m[j]

\* C9 as stated: whenever an element of the array lacks Expected_Result,
\* _format_response fails with a validation error that lists exactly
\* ["Expected_Result"].
C9_MissingListIsExpectedResult ==
    formatted.status # "none" =>
        \A sp \in CleanSpans(response) :
            (\E i \in 1..Len(ItemsAt(response, sp)) :
                "Expected_Result" \notin DOMAIN Objects[ItemsAt(response, sp)[i]]) =>
                /\ formatted.status = "raised"
                /\ formatted.err = "ValidationError"
                /\ formatted.missing = <<"Expected_Result">>

\* C9, amended: whenever an element of the array lacks a required key,
\* _format_response fails with a validation error that lists the required
\* keys the first such element lacks, in the order of required_keys (so
\* exactly ["Expected_Result"] when that is all the first invalid element
\* lacks); every record of a returned sequence is an object with the four
\* required keys; extra keys and the count are not checked.
C9_Validation ==
    formatted.status # "none" =>
        /\ \A sp \in CleanSpans(response) :
              LET items == ItemsAt(response, sp)
                  invalid == {i \in 1..Len(items) : ~IsValidObject(items[i])}
              IN  invalid # {} =>
                     /\ formatted.status = "raised"
                     /\ formatted.err = "ValidationError"
                     /\ \E f \in invalid :
                           /\ \A g \in invalid : f <= g
                           /\ IsMissingList(formatted.missing, items[f])
        /\ formatted.status = "returned" =>
              \A i \in 1..Len(formatted.test_cases) :
                  /\ formatted.test_cases[i].kind = "obj"
                  /\ IsValidObject(formatted.test_cases[i].tok)

\* An array whose first element is valid and whose second lacks only
\* Expected_Result was rejected with that key listed.
C9_Witness ==
    /\ formatted.err = "ValidationError"
    /\ formatted.missing = <<"Expected_Result">>
    /\ \E sp \in CleanSpans(response) :
          /\ Len(ItemsAt(response, sp)) = 2
          /\ IsValidObject(ItemsAt(response, sp)[1])

HasToken(s, t) == \E i \in 1..Len(s) : s[i] = t

ReturnsItems(f, items) ==
    /\ f.status = "returned"
    /\ f.test_cases = [i \in 1..Len(items) |-> JObj(items[i])]

\* C10 as stated: a response without '[' or without ']' fails with an
\* extraction error, and a response that is any prose around one array of
\* valid records returns that array's records.
C10_AnyProseAroundArray ==
    formatted.status # "none" =>
        /\ (~HasToken(response, "[") \/ ~HasToken(response, "]")) =>
              formatted.err = "ExtractionError"
        /\ \A sp \in Spans(response) :
              (/\ ItemsAt(response, sp) # <<>>
               /\ \A i \in 1..Len(ItemsAt(response, sp)) :
                     IsValidObject(ItemsAt(response, sp)[i])) =>
                  ReturnsItems(formatted, ItemsAt(response, sp))

\* C10, amended: a response without '[' or without ']' fails with an
\* extraction error, and no other response does; a response that is prose
\* with no '[' in it, one array of valid records, and prose with no ']' in
\* it returns exactly that array's records.
C10_BracketExtraction ==
    formatted.status # "none" =>
        /\ (~HasToken(response, "[") \/ ~HasToken(response, "]")) <=>
              (formatted.status = "raised" /\ formatted.err = "ExtractionError")
        /\ \A sp \in CleanSpans(response) :
              (\A i \in 1..Len(ItemsAt(response, sp)) :
                  IsValidObject(ItemsAt(response, sp)[i])) =>
                  ReturnsItems(formatted, ItemsAt(response, sp))

\* A response with prose before and after a one-record array succeeded.
C10_Witness ==
    /\ formatted.status = "returned"
    /\ formatted.test_cases # <<>>
    /\ response[1] = "p"
    /\ response[Len(response)] = "p"

====
